---- MODULE Spec2Model ----
(***************************************************************************)
(* Model of the click-counter server (src/server.js, the cookie            *)
(* authenticated server of lines 1-336) and of the parts of its browser    *)
(* client that the counting core depends on.                               *)
(*                                                                         *)
(* The store is PostgreSQL at its default isolation level READ COMMITTED:  *)
(* every statement sent through pool.query is its own transaction, and     *)
(* the statements of pressOnce run in one transaction whose writes become  *)
(* visible to other sessions at COMMIT.  An UPDATE takes the row lock of   *)
(* the row it changes and keeps it until its transaction ends.             *)
(*                                                                         *)
(* Every await of a handler is a suspension point: the statement it waits  *)
(* for is one step of the model, and steps of different handlers           *)
(* interleave freely.                                                      *)
(***************************************************************************)
EXTENDS Integers, Sequences, FiniteSets, Bags, TLC

(***************************************************************************)
(* Bounds of the model.                                                    *)
(***************************************************************************)
\* handlers that may be suspended at the same time
MaxInFlight == 2
\* the clock stops advancing here
MaxNow == 1001
\* presses the authenticated connections send in Spec, all together
MaxPresses == 3
\* allowPress calls one connection makes in SpecRate
MaxCalls == 13
\* largest limit getTop is called with in SpecTop
MaxLimit == 3
\* largest click count drawn for a user_stats row in SpecTop
MaxClicks == 2
\* creation times drawn for users rows in SpecTop
MaxCreated == 2
\* allowPress calls of the connection of SpecBurst
MaxBurst == 21
\* the end of time in SpecBurst, in half milliseconds
MaxHalfMs == 6001

(***************************************************************************)
(* Program constants.                                                      *)
(***************************************************************************)
\* allowPress: bucket.count <= 10
RateCap == 10
\* allowPress: now - bucket.ts >= 1000
RateWindowMs == 1000
\* LEFT($2,40)
NameMax == 40
\* getTop(10) in getTotals and in the press handler
TopLimit == 10

UserIds == {"u1", "u2", "u3"}
Conns == {"c1", "c2", "c3"}

\* authedUserId of a connection whose handshake carried no valid token
NoUser == "null"
\* SQL NULL in users.display_name
SqlNull == <<"NULL">>
\* the field mine of a stats payload that is undefined, and absent fields
Undefined == -1

VARIABLES
    users,          \* table users: id -> [display_name, created_at]
    user_stats,     \* table user_stats: user_id -> clicks
    stats,          \* table stats: value of the row 'total_clicks'
    authedUserId,   \* per connection: the user id of its cookie, or NoUser
    connected,      \* the connections whose socket is open
    rateBuckets,    \* Map socket.id -> [count, ts]
    now,            \* Date.now()
    sub,            \* the half millisecond of the time that Date.now() drops
    handlers,       \* the suspended handlers, a bag
    emitted,        \* the messages sent by the last step, in order
    commits,        \* per user: presses whose transaction committed
    history,        \* every committed state <<total, user_stats>> so far
    topOut,         \* result of the last getTop call of SpecTop
    calls           \* per connection: time and result of each allowPress call
                    \* of SpecRate

vars == <<users, user_stats, stats, authedUserId, connected, rateBuckets, now,
          sub, handlers, emitted, commits, history, topOut, calls>>

(***************************************************************************)
(* Strings are sequences of one-character strings.                         *)
(***************************************************************************)
Min(a, b) == IF a < b THEN a ELSE b

Str(ch, n) == [i \in 1..n |-> ch]

IsSpace(ch) == ch \in {" ", "\t", "\n"}

RECURSIVE TrimStart(_)
TrimStart(s) ==
    IF s # <<>> /\ IsSpace(Head(s)) THEN TrimStart(Tail(s)) ELSE s

RECURSIVE TrimEnd(_)
TrimEnd(s) ==
    IF s # <<>> /\ IsSpace(s[Len(s)])
    THEN TrimEnd(SubSeq(s, 1, Len(s) - 1))
    ELSE s

\* String.prototype.trim
Trim(s) == TrimEnd(TrimStart(s))

\* SQL LEFT(s, n)
Left(s, n) == SubSeq(s, 1, Min(n, Len(s)))

\* the sum of f over the set S
RECURSIVE SumOver(_, _)
SumOver(f, S) ==
    IF S = {} THEN 0
    ELSE LET x == CHOOSE y \in S : TRUE IN f[x] + SumOver(f, S \ {x})

IsPrefix(p, s) == Len(p) <= Len(s) /\ SubSeq(s, 1, Len(p)) = p

(***************************************************************************)
(* The store.                                                              *)
(***************************************************************************)
EmptyStats == [u \in {} |-> 0]

\* 'Anon-' || SUBSTRING(u.id::text, 1, 8)
AnonName(u) == <<"A", "n", "o", "n", "-", u>>

\* COALESCE(NULLIF(u.display_name, ''), 'Anon-' || ...)
LeaderName(us, u) ==
    IF us[u].display_name = SqlNull \/ us[u].display_name = <<>>
    THEN AnonName(u)
    ELSE us[u].display_name

\* FROM user_stats s JOIN users u ON u.id = s.user_id
Joined(us, ust) == DOMAIN ust \cap DOMAIN us

\* the query written with ORDER BY s.clicks DESC, u.created_at DESC
RanksBefore_NewestFirst(us, ust, a, b) ==
    \/ ust[a] > ust[b]
    \/ ust[a] = ust[b] /\ us[a].created_at > us[b].created_at

\* ORDER BY s.clicks DESC, u.created_at ASC: a sorts strictly before b
RanksBefore(us, ust, a, b) ==
    \/ ust[a] > ust[b]
    \/ ust[a] = ust[b] /\ us[a].created_at < us[b].created_at

\* the orders the ORDER BY clause allows for the joined rows (rows that tie
\* on both keys come in any order)
Ordered(us, ust) ==
    LET J == Joined(us, ust)
        n == Cardinality(J)
    IN  {p \in [1..n -> J] :
            /\ \A i, j \in 1..n : i # j => p[i] # p[j]
            /\ \A i, j \in 1..n : i < j => ~RanksBefore(us, ust, p[j], p[i])}

\* LIMIT $1
Limit(p, limit) == SubSeq(p, 1, Min(limit, Len(p)))

\* the user ids of the rows of getTop(limit), in order
GetTopIds(us, ust, limit) == {Limit(p, limit) : p \in Ordered(us, ust)}

\* the rows {name, clicks} getTop returns for these ids
TopRows(us, ust, ids) ==
    [i \in 1..Len(ids) |->
        [name |-> LeaderName(us, ids[i]), clicks |-> ust[ids[i]]]]

\* getTop answered without reading the tables
GetTop_Empty(us, ust, limit) == {<<>>}

\* getTop(limit): every result the query may return
GetTop(us, ust, limit) ==
    {TopRows(us, ust, ids) : ids \in GetTopIds(us, ust, limit)}

\* an UPDATE that adds two
UpdateTotal_ByTwo(value) == value + 2

\* UPDATE stats SET value = value + 1 ... RETURNING value
UpdateTotal(value) == value + 1

\* the upsert written with DO UPDATE SET clicks = EXCLUDED.clicks
UpsertClicks_Excluded(ust, u) == 1

\* INSERT INTO user_stats(user_id, clicks) VALUES ($1, 1)
\* ON CONFLICT (user_id) DO UPDATE SET clicks = user_stats.clicks + 1
\* RETURNING clicks
UpsertClicks(ust, u) == IF u \in DOMAIN ust THEN ust[u] + 1 ELSE 1

\* the table user_stats with the row of u set to clicks
PutClicks(ust, u, clicks) ==
    [x \in DOMAIN ust \cup {u} |-> IF x = u THEN clicks ELSE ust[x]]

\* a missing user_stats row read as one click
SelectMine_NoRow(ust, u) == IF u \in DOMAIN ust THEN ust[u] ELSE 1

\* SELECT clicks FROM user_stats WHERE user_id = $1; rows[0]?.clicks ?? 0n
SelectMine(ust, u) == IF u \in DOMAIN ust THEN ust[u] ELSE 0

\* String(name || "").trim(), the second parameter of the UPDATE of set_name
SetNameParam(name) == Trim(name)

\* UPDATE users SET display_name = LEFT($2,40) WHERE id = $1
UpdateDisplayName(us, u, param) ==
    IF u \in DOMAIN us
    THEN [us EXCEPT ![u].display_name = Left(param, NameMax)]
    ELSE us

(***************************************************************************)
(* The rate limiter.                                                       *)
(***************************************************************************)
\* rateBuckets.get(socketId) || { count: 0, ts: now }
BucketOf(buckets, c, t) ==
    IF c \in DOMAIN buckets THEN buckets[c] ELSE [count |-> 0, ts |-> t]

\* a window that is over only after more than 1000 ms
WindowOver_Strict(bucket, t) == t - bucket.ts > RateWindowMs

\* now - bucket.ts >= 1000
WindowOver(bucket, t) == t - bucket.ts >= RateWindowMs

\* a reset that leaves the call that finds the window over uncounted
BucketAfter_ResetUncounted(bucket, t) ==
    IF WindowOver(bucket, t)
    THEN [count |-> 0, ts |-> t]
    ELSE [bucket EXCEPT !.count = @ + 1]

\* the bucket allowPress stores: reset when the window is over, then counted
BucketAfter(bucket, t) ==
    LET b == IF WindowOver(bucket, t) THEN [count |-> 0, ts |-> t] ELSE bucket
    IN  [b EXCEPT !.count = @ + 1]

\* the comparison written with a cap that is one too high
Allowed_OffByOne(bucket) == bucket.count <= RateCap + 1

\* return bucket.count <= 10
Allowed(bucket) == bucket.count <= RateCap

\* rateBuckets.set(socketId, bucket)
SetBucket(buckets, c, bucket) ==
    [x \in DOMAIN buckets \cup {c} |-> IF x = c THEN bucket ELSE buckets[x]]

(***************************************************************************)
(* Messages.                                                               *)
(***************************************************************************)
ConnOrder == <<"c1", "c2", "c3">>

StatsMsg(c, total, mine, top) ==
    [to |-> c, event |-> "stats", total |-> total, mine |-> mine,
     top |-> top, text |-> ""]

YouMsg(c, mine) ==
    [to |-> c, event |-> "you", total |-> Undefined, mine |-> mine,
     top |-> <<>>, text |-> ""]

ErrorMsg(c, text) ==
    [to |-> c, event |-> "error_msg", total |-> Undefined, mine |-> Undefined,
     top |-> <<>>, text |-> text]

\* the snapshot sent to one socket in place of io.emit
IoEmitStats_OneSocket(total, mine, top) ==
    <<StatsMsg(ConnOrder[1], total, mine, top)>>

\* io.emit("stats", payload): one message to every connection
IoEmitStats(total, mine, top) ==
    [i \in 1..Len(ConnOrder) |-> StatsMsg(ConnOrder[i], total, mine, top)]

\* messages written to closed sockets as well
Delivered_ToClosed(msgs) == msgs

\* what the sockets deliver of the messages a step emits: socket.io writes
\* a packet to an open socket only, and io.emit reaches the sockets that are
\* connected
Delivered(msgs) ==
    LET open(m) == m.to \in connected IN SelectSeq(msgs, open)

(***************************************************************************)
(* Suspended handlers.  A handler that waits for the store is a record of  *)
(* its event (kind), its connection, the statement it waits for (pc) and   *)
(* the values it has read so far.  The handlers in flight form a bag: the  *)
(* event loop keeps them apart, and nothing depends on which is which.     *)
(***************************************************************************)
NoBefore == [total |-> 0, user_stats |-> EmptyStats]

\* the committed counts of the store
StoreNow == [total |-> stats, user_stats |-> user_stats]

\* a handler as it is called; before is the store as the handler found it: a
\* press when it was called (carried past the commits of other presses), a
\* hello or set_name when it called getTotals
NewHandler(kind, c, pc) ==
    [kind |-> kind, conn |-> c, pc |-> pc, total |-> 0, mine |-> 0,
     arg |-> <<>>, locked |-> FALSE, committed |-> FALSE, before |-> NoBefore]

InFlight == BagToSet(handlers)

\* a further handler may be suspended
RoomForHandler == BagCardinality(handlers) < MaxInFlight

Start(h) == handlers (+) SetToBag({h})

Finish(h) == handlers (-) SetToBag({h})

Resume(h, h2) == (handlers (-) SetToBag({h})) (+) SetToBag({h2})

UserOf(h) == authedUserId[h.conn]

\* the names set_name is called with in Spec
CoreNames == {<<" ", "B", " ">>}

\* the names set_name is called with in SpecName
RawNames ==
    { <<>>,
      <<" ", "\t">>,
      <<" ", " ", "A", "l", "i", "c", "e", " ", " ">>,
      <<"A", " ", "B">>,
      Str("x", 50),
      Str("y", 39) \o <<" ", "z">>,
      <<" ">> \o Str("w", 40) \o <<" ">> }

\* the steps the clock advances by
TickSteps == {999, 1000, 1001}

Init ==
    /\ users \in
         { [u \in {"u1", "u2"} |->
               [display_name |-> SqlNull,
                created_at |-> IF u = "u1" THEN 1 ELSE 2]],
           [u \in {"u1"} |-> [display_name |-> SqlNull, created_at |-> 1]] }
    /\ user_stats = EmptyStats
    /\ stats = 0
    /\ authedUserId = [c \in Conns |->
                          CASE c = "c1" -> "u1" [] c = "c2" -> "u2"
                            [] OTHER -> NoUser]
    /\ connected = Conns
    /\ rateBuckets = [c \in {} |-> 0]
    /\ now = 0
    /\ sub = 0
    /\ handlers = EmptyBag
    /\ emitted = <<>>
    /\ commits = [u \in UserIds |-> 0]
    /\ history = {[total |-> 0, user_stats |-> EmptyStats]}
    /\ topOut = <<>>
    /\ calls = [c \in Conns |-> <<>>]

store == <<users, user_stats, stats, commits, history>>

\* the time: Date.now() and the half millisecond it drops
clock == <<now, sub>>

(***************************************************************************)
(* socket.on("press")                                                      *)
(***************************************************************************)
\* the handlers without their test of authedUserId
IsAuthed_Always(c) == TRUE

\* the test of authedUserId that opens the press and set_name handlers
IsAuthed(c) == authedUserId[c] # NoUser

\* allowPress(socketId): the rate bucket it stores and the value it returns
AllowPress(buckets, c, t) ==
    LET b == BucketAfter(BucketOf(buckets, c, t), t)
    IN  [buckets |-> SetBucket(buckets, c, b), ok |-> Allowed(b)]

\* the presses that have reached allowPress (the clock of Spec stands still,
\* so no bucket is reset)
PressesSent ==
    LET count == [c \in DOMAIN rateBuckets |-> rateBuckets[c].count]
    IN  SumOver(count, DOMAIN count)

\* the handler up to its first await:
\*   if (!authedUserId) { socket.emit("error_msg", "Log in to press."); return; }
\*   if (!allowPress(socket.id)) { socket.emit("error_msg", "Too fast. Chill."); return; }
\*   pressOnce(authedUserId), which awaits the store
Press(c) ==
    LET r == AllowPress(rateBuckets, c, now) IN
    /\ c \in connected
    /\ IF ~IsAuthed(c)
       THEN /\ emitted' = Delivered(<<ErrorMsg(c, "Log in to press.")>>)
            /\ UNCHANGED <<store, authedUserId, connected, rateBuckets, clock,
                           handlers, topOut, calls>>
       ELSE /\ PressesSent < MaxPresses
            /\ rateBuckets' = r.buckets
            /\ IF ~r.ok
               THEN /\ emitted' = Delivered(<<ErrorMsg(c, "Too fast. Chill.")>>)
                    /\ UNCHANGED handlers
               ELSE /\ emitted' = <<>>
                    /\ RoomForHandler
                    /\ handlers' = Start(
                          [NewHandler("press", c, "update") EXCEPT
                              !.before = StoreNow])
            /\ UNCHANGED <<store, authedUserId, connected, clock, topOut, calls>>

\* an open transaction holds the row lock of 'total_clicks'
RowLocked == \E h \in InFlight : h.locked

\* the increment done as a read and a write that do not take the row lock
RowLockFree_NoWait(held) == TRUE

\* the UPDATE of pressOnce proceeds once no other open transaction holds the
\* row lock of 'total_clicks'
RowLockFree(held) == ~held

\* await pool.connect(); await client.query("BEGIN"); neither reads nor
\* writes a row, so both are part of the step of the UPDATE that follows:
\* UPDATE stats SET value = value + 1 WHERE key = 'total_clicks' RETURNING
\* value, which waits for the row lock, then reads the committed value
TxUpdate(h) ==
    /\ h.pc = "update"
    /\ RowLockFree(RowLocked)
    /\ handlers' = Resume(h, [h EXCEPT !.pc = "upsert", !.locked = TRUE,
                                       !.total = UpdateTotal(stats)])
    /\ emitted' = <<>>
    /\ UNCHANGED <<store, authedUserId, connected, rateBuckets, clock, topOut,
                   calls>>

\* the upsert of user_stats for a user that has a users row
TxUpsert(h) ==
    /\ h.pc = "upsert"
    /\ UserOf(h) \in DOMAIN users
    /\ handlers' = Resume(h, [h EXCEPT !.pc = "commit",
                                !.mine = UpsertClicks(user_stats, UserOf(h))])
    /\ emitted' = <<>>
    /\ UNCHANGED <<store, authedUserId, connected, rateBuckets, clock, topOut,
                   calls>>

\* the upsert of user_stats violates user_id REFERENCES users(id)
TxUpsertNoUser(h) ==
    /\ h.pc = "upsert"
    /\ UserOf(h) \notin DOMAIN users
    /\ handlers' = Resume(h, [h EXCEPT !.pc = "rollback"])
    /\ emitted' = <<>>
    /\ UNCHANGED <<store, authedUserId, connected, rateBuckets, clock, topOut,
                   calls>>

\* a statement of the transaction fails: at "update" pool.connect(), BEGIN
\* or the UPDATE, at "upsert" the upsert, at "commit" the COMMIT
TxFault(h) ==
    /\ h.pc \in {"update", "upsert", "commit"}
    /\ handlers' = Resume(h, [h EXCEPT !.pc = "rollback"])
    /\ emitted' = <<>>
    /\ UNCHANGED <<store, authedUserId, connected, rateBuckets, clock, topOut,
                   calls>>

\* the error_msg the catch block of a handler sends
CaughtText(kind) ==
    CASE kind = "hello" -> "Failed to initialize."
      [] kind = "set_name" -> "Failed to set name."
      [] OTHER -> "Something broke while pressing. Try again."

\* a COMMIT that counts the press a second time
CommitTotal_Twice(value, t) == t.total + 1

\* what COMMIT makes visible: the value of 'total_clicks'
CommitTotal(value, t) == t.total

\* what COMMIT makes visible: the table user_stats
CommitUserStats(ust, u, t) == PutClicks(ust, u, t.mine)

\* the UPDATE run outside the transaction: ROLLBACK does not undo it
RollbackTotal_Kept(value, t) == IF t.locked THEN t.total ELSE value

\* what ROLLBACK leaves: the value of 'total_clicks'
RollbackTotal(value, t) == value

\* what ROLLBACK leaves: the table user_stats
RollbackUserStats(ust, u, t) == ust

\* the state before an attempt that has not committed, carried past a commit
\* of another press
BeforeAfter(b, u) ==
    [total |-> b.total + 1,
     user_stats |-> PutClicks(b.user_stats, u, SelectMine(b.user_stats, u) + 1)]

\* a handler in flight after the commit of a press of user u
AfterCommitOf(h, u) ==
    IF h.kind = "press" /\ ~h.committed
    THEN [h EXCEPT !.before = BeforeAfter(@, u)]
    ELSE h

\* the handlers of bag B after the commit of a press of user u
AllAfterCommitOf(B, u) ==
    LET img == {AfterCommitOf(h, u) : h \in BagToSet(B)}
    IN  [g \in img |->
            SumOver(B, {h \in BagToSet(B) : AfterCommitOf(h, u) = g})]

\* await client.query("COMMIT"); return { total, mine }; client.release()
TxCommit(h) ==
    LET u == UserOf(h)
        total == CommitTotal(stats, h)
        ust == CommitUserStats(user_stats, u, h)
    IN
    /\ h.pc = "commit"
    /\ stats' = total
    /\ user_stats' = ust
    /\ commits' = [commits EXCEPT ![u] = @ + 1]
    /\ history' = history \cup {[total |-> total, user_stats |-> ust]}
    /\ handlers' = AllAfterCommitOf(Finish(h), u)
                      (+) SetToBag({[h EXCEPT !.pc = "gettop",
                                              !.locked = FALSE,
                                              !.committed = TRUE]})
    /\ emitted' = <<>>
    /\ UNCHANGED <<users, authedUserId, connected, rateBuckets, clock, topOut,
                   calls>>

\* catch (e) { await client.query("ROLLBACK"); throw e; } finally release;
\* the catch block of the press handler then sends its error_msg
TxRollback(h) ==
    LET u == UserOf(h) IN
    /\ h.pc = "rollback"
    /\ stats' = RollbackTotal(stats, h)
    /\ user_stats' = RollbackUserStats(user_stats, u, h)
    /\ handlers' = Finish(h)
    /\ emitted' = Delivered(<<ErrorMsg(h.conn, CaughtText(h.kind))>>)
    /\ UNCHANGED <<users, commits, history, authedUserId, connected,
                   rateBuckets, clock,
                   topOut, calls>>

\* the stats payload of a press built from the whole result of pressOnce
PressStatsMine_Leak(mine) == mine

\* the field mine of the stats payload of a press: mine: undefined
PressStatsMine(mine) == Undefined

\* const top = await getTop(10); io.emit("stats", { total, mine: undefined,
\* top }); socket.emit("you", { mine });
PressEmit(h) ==
    /\ h.kind = "press"
    /\ h.pc = "gettop"
    /\ \E top \in GetTop(users, user_stats, TopLimit) :
          emitted' = Delivered(
                         IoEmitStats(h.total, PressStatsMine(h.mine), top)
                            \o <<YouMsg(h.conn, h.mine)>>)
    /\ handlers' = Finish(h)
    /\ UNCHANGED <<store, authedUserId, connected, rateBuckets, clock, topOut,
                   calls>>

(***************************************************************************)
(* getTotals, called by the hello and set_name handlers: three statements, *)
(* each its own transaction.                                               *)
(***************************************************************************)
\* SELECT value FROM stats WHERE key = 'total_clicks'; mine stays 0 and the
\* second statement is skipped when userId is null
ReadTotal(h) ==
    /\ h.pc = "total"
    /\ handlers' = Resume(h, [h EXCEPT !.total = stats, !.mine = 0,
                                       !.pc = IF UserOf(h) = NoUser
                                              THEN "top" ELSE "mine"])
    /\ emitted' = <<>>
    /\ UNCHANGED <<store, authedUserId, connected, rateBuckets, clock, topOut,
                   calls>>

\* SELECT clicks FROM user_stats WHERE user_id = $1
ReadMine(h) ==
    /\ h.pc = "mine"
    /\ handlers' = Resume(h, [h EXCEPT
                                !.mine = SelectMine(user_stats, UserOf(h)),
                                !.pc = "top"])
    /\ emitted' = <<>>
    /\ UNCHANGED <<store, authedUserId, connected, rateBuckets, clock, topOut,
                   calls>>

\* a statement sent through pool.query outside pressOnce fails, and the
\* catch block of the handler sends its error_msg
ReadFault(h) ==
    /\ h.pc \in {"rename", "total", "mine", "top", "gettop"}
    /\ handlers' = Finish(h)
    /\ emitted' = Delivered(<<ErrorMsg(h.conn, CaughtText(h.kind))>>)
    /\ UNCHANGED <<store, authedUserId, connected, rateBuckets, clock, topOut,
                   calls>>

(***************************************************************************)
(* socket.on("hello")                                                      *)
(***************************************************************************)
HelloStart(c) ==
    /\ c \in connected
    /\ RoomForHandler
    /\ handlers' = Start([NewHandler("hello", c, "total") EXCEPT
                             !.before = StoreNow])
    /\ emitted' = <<>>
    /\ UNCHANGED <<store, authedUserId, connected, rateBuckets, clock, topOut,
                   calls>>

\* const top = await getTop(10); socket.emit("stats", snapshot);
\* if (!authedUserId) socket.emit("error_msg", "Log in to press.");
HelloEmit(h) ==
    /\ h.kind = "hello"
    /\ h.pc = "top"
    /\ \E top \in GetTop(users, user_stats, TopLimit) :
          emitted' = Delivered(
                         <<StatsMsg(h.conn, h.total, h.mine, top)>>
                            \o (IF UserOf(h) = NoUser
                                THEN <<ErrorMsg(h.conn, "Log in to press.")>>
                                ELSE <<>>))
    /\ handlers' = Finish(h)
    /\ UNCHANGED <<store, authedUserId, connected, rateBuckets, clock, topOut,
                   calls>>

(***************************************************************************)
(* socket.on("set_name")                                                   *)
(***************************************************************************)
\* if (!authedUserId) return;
SetNameUnauth(c) ==
    /\ c \in connected
    /\ ~IsAuthed(c)
    /\ emitted' = <<>>
    /\ UNCHANGED <<store, authedUserId, connected, rateBuckets, clock,
                   handlers, topOut,
                   calls>>

\* the handler is called with name and awaits its UPDATE
SetNameStart(c, name) ==
    /\ c \in connected
    /\ IsAuthed(c)
    /\ RoomForHandler
    /\ handlers' = Start([NewHandler("set_name", c, "rename") EXCEPT
                             !.arg = name])
    /\ emitted' = <<>>
    /\ UNCHANGED <<store, authedUserId, connected, rateBuckets, clock, topOut,
                   calls>>

\* await pool.query(`UPDATE users SET display_name = LEFT($2,40) WHERE id = $1;`,
\*                  [authedUserId, String(name || "").trim()])
SetNameUpdate(h) ==
    /\ h.pc = "rename"
    /\ users' = UpdateDisplayName(users, UserOf(h), SetNameParam(h.arg))
    /\ handlers' = Resume(h, [h EXCEPT !.pc = "total", !.before = StoreNow])
    /\ emitted' = <<>>
    /\ UNCHANGED <<user_stats, stats, commits, history,
                   authedUserId, connected, rateBuckets, clock, topOut, calls>>

\* const top = await getTop(10); io.emit("stats", snapshot);
SetNameEmit(h) ==
    /\ h.kind = "set_name"
    /\ h.pc = "top"
    /\ \E top \in GetTop(users, user_stats, TopLimit) :
          emitted' = Delivered(IoEmitStats(h.total, h.mine, top))
    /\ handlers' = Finish(h)
    /\ UNCHANGED <<store, authedUserId, connected, rateBuckets, clock, topOut,
                   calls>>

\* the connections that call set_name in Spec
RenamingConns == {"c1"}

Next ==
    \/ \E c \in Conns : Press(c)
    \/ \E h \in InFlight : TxUpdate(h)
    \/ \E h \in InFlight : TxUpsert(h)
    \/ \E h \in InFlight : TxUpsertNoUser(h)
    \/ \E h \in InFlight : TxFault(h)
    \/ \E h \in InFlight : TxCommit(h)
    \/ \E h \in InFlight : TxRollback(h)
    \/ \E h \in InFlight : PressEmit(h)
    \/ \E h \in InFlight : ReadTotal(h)
    \/ \E h \in InFlight : ReadMine(h)
    \/ \E h \in InFlight : ReadFault(h)
    \/ \E c \in Conns : HelloStart(c)
    \/ \E h \in InFlight : HelloEmit(h)
    \/ \E c \in Conns : SetNameUnauth(c)
    \/ \E c \in RenamingConns, name \in CoreNames : SetNameStart(c, name)
    \/ \E h \in InFlight : SetNameUpdate(h)
    \/ \E h \in InFlight : SetNameEmit(h)

Spec == Init /\ [][Next]_vars

(***************************************************************************)
(* SpecName: the set_name handler with the names of RawNames.              *)
(***************************************************************************)
NextName ==
    \/ \E c \in Conns : SetNameUnauth(c)
    \/ \E c \in Conns, name \in RawNames : SetNameStart(c, name)
    \/ \E h \in InFlight : SetNameUpdate(h)
    \/ \E h \in InFlight : ReadTotal(h)
    \/ \E h \in InFlight : ReadMine(h)
    \/ \E h \in InFlight : ReadFault(h)
    \/ \E h \in InFlight : SetNameEmit(h)

SpecName == Init /\ [][NextName]_vars

(***************************************************************************)
(* SpecRate: allowPress called at any times by the connections.            *)
(***************************************************************************)
\* one call allowPress(c) at the time now, its time and result recorded
AllowPressCall(c) ==
    LET r == AllowPress(rateBuckets, c, now) IN
    /\ Len(calls[c]) < MaxCalls
    /\ rateBuckets' = r.buckets
    /\ calls' = [calls EXCEPT ![c] = Append(@, [t |-> now, ok |-> r.ok])]
    /\ emitted' = <<>>
    /\ UNCHANGED <<store, authedUserId, connected, clock, handlers, topOut>>

\* Date.now() advances
Tick(d) ==
    /\ now + d <= MaxNow
    /\ now' = now + d
    /\ sub' = sub
    /\ emitted' = <<>>
    /\ UNCHANGED <<store, authedUserId, connected, rateBuckets, handlers,
                   topOut, calls>>

\* the connections that call allowPress in SpecRate
RateConns == {"c1", "c2"}

NextRate ==
    \/ \E c \in RateConns : AllowPressCall(c)
    \/ \E d \in TickSteps : Tick(d)

SpecRate == Init /\ [][NextRate]_vars

(***************************************************************************)
(* SpecBurst: one connection calls allowPress while the time advances in   *)
(* half milliseconds; Date.now() gives the whole milliseconds of it.       *)
(***************************************************************************)
\* the connection that calls allowPress in SpecBurst
BurstConns == {"c1"}

\* the time between two events, in half milliseconds: 999.5 ms, 1000.5 ms
BurstSteps == {1999, 2001}

\* the time in half milliseconds
HalfMs == 2 * now + sub

\* Date.now(): the whole milliseconds of the time
DateNow(h) == h \div 2

\* d half milliseconds pass
Elapse(d) ==
    LET h == HalfMs + d IN
    /\ h <= MaxHalfMs
    /\ now' = DateNow(h)
    /\ sub' = h % 2
    /\ emitted' = <<>>
    /\ UNCHANGED <<store, authedUserId, connected, rateBuckets, handlers,
                   topOut, calls>>

\* one call allowPress(c); the log keeps Date.now(), the time and the result
BurstCall(c) ==
    LET r == AllowPress(rateBuckets, c, now) IN
    /\ Len(calls[c]) < MaxBurst
    /\ rateBuckets' = r.buckets
    /\ calls' = [calls EXCEPT
                    ![c] = Append(@, [t |-> now, at |-> HalfMs, ok |-> r.ok])]
    /\ emitted' = <<>>
    /\ UNCHANGED <<store, authedUserId, connected, clock, handlers, topOut>>

NextBurst ==
    \/ \E c \in BurstConns : BurstCall(c)
    \/ \E d \in BurstSteps : Elapse(d)

SpecBurst == Init /\ [][NextBurst]_vars

(***************************************************************************)
(* SpecTop: getTop(n) on any tables users and user_stats.                  *)
(***************************************************************************)
\* display names drawn for the users rows of SpecTop
TopNames == {SqlNull, <<>>, <<"A", "l">>}

InitTop ==
    /\ \E U \in SUBSET UserIds :
          /\ users \in [U -> [display_name : TopNames,
                              created_at : 1..MaxCreated]]
          /\ \E S \in SUBSET U : user_stats \in [S -> 0..MaxClicks]
    /\ stats = 0
    /\ authedUserId = [c \in Conns |-> NoUser]
    /\ connected = Conns
    /\ rateBuckets = [c \in {} |-> 0]
    /\ now = 0
    /\ sub = 0
    /\ handlers = EmptyBag
    /\ emitted = <<>>
    /\ commits = [u \in UserIds |-> 0]
    /\ history = {}
    /\ topOut = [limit |-> 0, ids |-> <<>>, rows |-> <<>>]
    /\ calls = [c \in Conns |-> <<>>]

\* const rows = await getTop(limit)
GetTopCall(limit) ==
    /\ \E ids \in GetTopIds(users, user_stats, limit) :
          topOut' = [limit |-> limit, ids |-> ids,
                     rows |-> TopRows(users, user_stats, ids)]
    /\ UNCHANGED <<store, authedUserId, connected, rateBuckets, clock,
                   handlers, emitted,
                   calls>>

NextTop == \E limit \in 0..MaxLimit : GetTopCall(limit)

SpecTop == InitTop /\ [][NextTop]_vars

(***************************************************************************)
(* Properties.                                                             *)
(***************************************************************************)
\* the sum of clicks over all user_stats rows
SumClicks == SumOver(user_stats, DOMAIN user_stats)

\* handler h is inside pressOnce
InTx(h) ==
    /\ h.kind = "press"
    /\ h.pc \in {"update", "upsert", "commit", "rollback"}

\* C1: whenever no pressOnce transaction is in flight, the stored global
\* total equals the sum of clicks over all user_stats rows.
C1_TotalIsSumOfClicks ==
    (\A h \in InFlight : ~InTx(h)) => stats = SumClicks

\* C1 witness: no handler is suspended, two users have one committed press
\* each, and a second press of c1 that reached pressOnce has not committed.
C1_Witness ==
    /\ handlers = EmptyBag
    /\ stats = 2
    /\ user_stats = [u \in {"u1", "u2"} |-> 1]
    /\ rateBuckets["c1"].count = 2

\* C2: no increment is lost: the global total is higher than at the start
\* (0) by exactly the number of committed presses, and the clicks of each
\* user by exactly the number of that user's committed presses.
C2_NoLostIncrement ==
    /\ stats = SumOver(commits, UserIds)
    /\ \A u \in UserIds : SelectMine(user_stats, u) = commits[u]

\* C2 witness: two presses of two distinct users are both suspended after
\* their commits; the total is 2 and each user's clicks are 1.
C2_Witness ==
    /\ \A h \in InFlight : h.kind = "press" /\ h.committed
    /\ \E h1, h2 \in InFlight : UserOf(h1) # UserOf(h2)
    /\ stats = 2
    /\ \A h \in InFlight : SelectMine(user_stats, UserOf(h)) = 1

\* C3: when a statement of pressOnce has failed, and when pressOnce has
\* rolled back and returned the error, the global total and every user_stats
\* row are what they were before the attempt (counting in the presses of
\* others that committed meanwhile), and the total is the sum of the clicks:
\* neither side of the failed increment is applied.
C3_FailedPressRestores ==
    [][\A h \in InFlight :
          /\ h.pc = "rollback" =>
                /\ stats = h.before.total
                /\ user_stats = h.before.user_stats
          /\ TxRollback(h) =>
                /\ stats' = h.before.total
                /\ user_stats' = h.before.user_stats
                /\ stats' = SumOver(user_stats', DOMAIN user_stats')]_vars

\* C3 witness: after a press of another connection has committed, a press
\* has failed at its COMMIT, after its UPDATE and its upsert.
C3_Witness ==
    \E h \in InFlight :
        /\ h.pc = "rollback"
        /\ h.total = 2
        /\ h.mine = 1
        /\ stats = 1

\* C4: every snapshot {total, mine} of getTotals(u) is the pair (global
\* total, clicks of u) of one single committed state of the store.
C4_SnapshotIsOneState ==
    \A h \in InFlight :
        (h.kind \in {"hello", "set_name"} /\ h.pc = "top"
            /\ UserOf(h) # NoUser)
        => \E past \in history :
              /\ past.total = h.total
              /\ SelectMine(past.user_stats, UserOf(h)) = h.mine

\* the start of the one-second window the i-th recorded call falls in: the
\* first call opens a window, and a call made 1000 ms or more after the
\* start of the window of the call before it opens the next one
RECURSIVE WindowStartOf(_, _)
WindowStartOf(log, i) ==
    IF i = 1 THEN log[1].t
    ELSE LET w == WindowStartOf(log, i - 1)
         IN  IF log[i].t - w >= 1000 THEN log[i].t ELSE w

\* how many of the first i recorded calls fall in the window of the i-th
CallsInWindow(log, i) ==
    Cardinality({j \in 1..i : WindowStartOf(log, j) = WindowStartOf(log, i)})

\* C5: of the calls allowPress gets from one connection inside one window,
\* exactly the first 10 return true, the 11th and every further one return
\* false, and the first call after the window has rolled over returns true.
C5_TenPerWindow ==
    \A c \in Conns :
        \A i \in 1..Len(calls[c]) :
            calls[c][i].ok <=> CallsInWindow(calls[c], i) <= 10

\* C5 witness: a connection has made 12 calls in one window, the 10th
\* accepted, the 11th and 12th rejected, and a 13th call in the next window
\* is accepted.
C5_Witness ==
    \E c \in Conns :
        /\ Len(calls[c]) = 13
        /\ calls[c][1].t = calls[c][12].t
        /\ calls[c][10].ok /\ ~calls[c][11].ok /\ ~calls[c][12].ok
        /\ calls[c][13].t >= calls[c][1].t + 1000
        /\ calls[c][13].ok

\* C6: a press on a connection without authenticated user id changes neither
\* the global total nor a user_stats row nor a rate bucket, and sends one
\* message only: the error_msg "Log in to press." to that connection.
C6_UnauthPressFrame ==
    [][\A c \in Conns :
          (authedUserId[c] = NoUser /\ Press(c)) =>
              /\ stats' = stats
              /\ user_stats' = user_stats
              /\ rateBuckets' = rateBuckets
              /\ Len(emitted') = 1
              /\ emitted'[1].to = c
              /\ emitted'[1].event = "error_msg"
              /\ emitted'[1].text = "Log in to press."]_vars

\* C6 witness: an unauthenticated connection has just pressed, after a press
\* of an authenticated one was counted.
C6_Witness ==
    /\ Len(emitted) = 1
    /\ emitted[1].text = "Log in to press."
    /\ authedUserId[emitted[1].to] = NoUser
    /\ stats = 1
    /\ DOMAIN rateBuckets # {}

\* the messages of the step are those of the committed press of h: one
\* stats message per connection with the new total, a top and no numeric
\* mine, and one you message, to the presser, with the presser's new mine
PressBroadcast(h) ==
    LET t == h
        u == UserOf(h)
        n == Len(emitted')
    IN
    /\ n = Cardinality(Conns) + 1
    /\ \A c \in Conns :
          \E i \in 1..n :
              /\ emitted'[i].to = c
              /\ emitted'[i].event = "stats"
              /\ emitted'[i].total = t.before.total + 1
              /\ emitted'[i].mine = Undefined
              /\ emitted'[i].top \in GetTop(users, user_stats, 10)
    /\ \E i \in 1..n :
          /\ emitted'[i].event = "you"
          /\ emitted'[i].to = t.conn
          /\ emitted'[i].mine = SelectMine(t.before.user_stats, u) + 1
    /\ \A i \in 1..n :
          emitted'[i].mine # Undefined =>
              emitted'[i].event = "you" /\ emitted'[i].to = t.conn

\* the only message of the step is an error_msg to the connection of h
OnlyErrorToCaller(h) ==
    /\ Len(emitted') = 1
    /\ emitted'[1].event = "error_msg"
    /\ emitted'[1].to = h.conn
    /\ emitted'[1].mine = Undefined

\* the press handler h, whose increment has committed, ends in this step
CommittedPressEnds(h) ==
    /\ h.kind = "press"
    /\ h.committed
    /\ handlers' = Finish(h)

\* C7 as stated: every press that commits is followed by the stats
\* messages to all connections and the you message to the presser alone.
C7_EveryCommitBroadcast ==
    [][\A h \in InFlight : CommittedPressEnds(h) => PressBroadcast(h)]_vars

\* C7 as amended: a press that commits and whose getTop(10) succeeds sends
\* the stats messages (no numeric mine) to all connections and the you
\* message to the presser alone; when getTop fails it sends one error_msg to
\* the presser; in neither case does another connection get a personal count.
C7_CommitBroadcastOrError ==
    [][\A h \in InFlight :
          CommittedPressEnds(h) =>
              \/ PressEmit(h) /\ PressBroadcast(h)
              \/ ReadFault(h) /\ OnlyErrorToCaller(h)]_vars

\* C7 witness: the messages of a committed press have just been sent: stats
\* with total 2 and a top to the three connections, you with mine 1 last.
C7_Witness ==
    /\ Len(emitted) = 4
    /\ \A i \in 1..3 :
          /\ emitted[i].event = "stats"
          /\ emitted[i].total = 2
          /\ emitted[i].mine = Undefined
          /\ Len(emitted[i].top) = 2
    /\ {emitted[i].to : i \in 1..3} = Conns
    /\ emitted[4].event = "you"
    /\ emitted[4].mine = 1

\* name is the empty string or consists of whitespace only
IsBlank(name) == \A i \in 1..Len(name) : IsSpace(name[i])

\* name has neither leading nor trailing whitespace
NoEdgeSpace(name) ==
    name = <<>> \/ (~IsSpace(name[1]) /\ ~IsSpace(name[Len(name)]))

\* C8: the UPDATE of a set_name whose raw name is empty or whitespace only
\* leaves the stored display name of the user as it was.
C8_BlankNameKeepsName ==
    [][\A h \in InFlight :
          (/\ SetNameUpdate(h)
           /\ IsBlank(h.arg)
           /\ UserOf(h) \in DOMAIN users
           /\ users[UserOf(h)].display_name \notin {SqlNull, <<>>})
          => users'[UserOf(h)].display_name
                = users[UserOf(h)].display_name]_vars

\* C9: after the UPDATE of a set_name whose trimmed raw name is not empty,
\* the stored display name has no leading or trailing whitespace, is at most
\* 40 characters long and is a prefix of the trimmed raw name.
C9_StoredNameTrimmed ==
    [][\A h \in InFlight :
          (/\ SetNameUpdate(h)
           /\ ~IsBlank(h.arg)
           /\ UserOf(h) \in DOMAIN users)
          => LET d == users'[UserOf(h)].display_name IN
             /\ NoEdgeSpace(d)
             /\ Len(d) <= 40
             /\ IsPrefix(d, Trim(h.arg))]_vars

\* C10: the result of getTop(n) has at most n entries, each the name and
\* clicks of a different user that has a users row and a user_stats row (all
\* of them when fewer than n are returned), is sorted by clicks descending
\* and, among equal clicks, by creation time ascending, and no user left out
\* ranks ahead of a user in it.
C10_TopOrdered ==
    LET ids == topOut.ids
        n == Len(ids)
        J == DOMAIN users \cap DOMAIN user_stats
        In == {ids[i] : i \in 1..n}
    IN
    /\ n <= topOut.limit
    /\ Len(topOut.rows) = n
    /\ In \subseteq J
    /\ Cardinality(In) = n
    /\ n < topOut.limit => In = J
    /\ \A i \in 1..n :
          /\ topOut.rows[i].clicks = user_stats[ids[i]]
          /\ topOut.rows[i].name = LeaderName(users, ids[i])
    /\ \A i, j \in 1..n :
          i < j =>
              \/ user_stats[ids[i]] > user_stats[ids[j]]
              \/ /\ user_stats[ids[i]] = user_stats[ids[j]]
                 /\ users[ids[i]].created_at <= users[ids[j]].created_at
    /\ \A u \in J \ In :
          \A i \in 1..n :
              /\ user_stats[u] <= user_stats[ids[i]]
              /\ user_stats[u] = user_stats[ids[i]]
                    => users[u].created_at >= users[ids[i]].created_at

\* C10 witness: getTop(2) has returned two of three users that all tie on
\* clicks, the one created latest being left out.
C10_Witness ==
    /\ topOut.limit = 2
    /\ Len(topOut.ids) = 2
    /\ DOMAIN user_stats = UserIds
    /\ \A u \in UserIds : user_stats[u] = 1
    /\ users[topOut.ids[1]].created_at < users[topOut.ids[2]].created_at
    /\ \E u \in UserIds :
          /\ u \notin {topOut.ids[1], topOut.ids[2]}
          /\ users[u].created_at >= users[topOut.ids[2]].created_at

Uncommitted == {h \in InFlight : h.kind = "press" /\ ~h.committed}

\* C12: a press whose pressOnce fails sends one error_msg to its connection
\* and no stats or you message, changes no count and ends without entering
\* pressOnce again; the committed increments, together with the attempts
\* still in flight, never outnumber the presses that passed the checks.
C12_FailedPressOneError ==
    [][/\ \A h \in InFlight :
             TxRollback(h) =>
                 /\ Len(emitted') = 1
                 /\ emitted'[1].event = "error_msg"
                 /\ emitted'[1].to = h.conn
                 /\ emitted'[1].text
                       = "Something broke while pressing. Try again."
                 /\ handlers' = handlers (-) SetToBag({h})
                 /\ stats' = stats
                 /\ user_stats' = user_stats
                 /\ commits' = commits
       /\ stats' + SumOver(handlers', Uncommitted') <= PressesSent']_vars

\* C12 witness: the press of the user without users row has failed at its
\* upsert and was answered by the error_msg; nothing was counted and no
\* handler is left.
C12_Witness ==
    /\ Len(emitted) = 1
    /\ emitted[1].to = "c2"
    /\ emitted[1].text = "Something broke while pressing. Try again."
    /\ "u2" \notin DOMAIN users
    /\ handlers = EmptyBag
    /\ stats = 0
    /\ PressesSent = 1

\* handler h returns from getTotals in this step
GetTotalsReturns(h) == HelloEmit(h) \/ SetNameEmit(h)

\* the store has not changed since h called getTotals
NoWriteSince(h) == h.before = StoreNow

\* C13: no step of getTotals changes a users, user_stats or stats row or a
\* rate bucket; a call during which the store did not change returns the
\* stored total, the stored clicks of its user (0 without a row) and a
\* leaderboard of the store, so that two calls with no committed write from
\* the start of the first to the end of the second return the same values.
C13_GetTotalsRepeatable ==
    [][\A h \in InFlight :
          /\ (ReadTotal(h) \/ ReadMine(h) \/ GetTotalsReturns(h)) =>
                UNCHANGED <<users, user_stats, stats, rateBuckets>>
          /\ (GetTotalsReturns(h) /\ NoWriteSince(h)) =>
                /\ emitted'[1].total = stats
                /\ emitted'[1].mine = IF UserOf(h) \in DOMAIN user_stats
                                      THEN user_stats[UserOf(h)] ELSE 0
                /\ \E ids \in GetTopIds(users, user_stats, 10) :
                      emitted'[1].top = TopRows(users, user_stats, ids)
          /\ \A g \in InFlight :
                (/\ g.kind \in {"hello", "set_name"} /\ g.pc = "top"
                 /\ h.kind \in {"hello", "set_name"} /\ h.pc = "top"
                 /\ UserOf(g) = UserOf(h)
                 /\ NoWriteSince(g) /\ NoWriteSince(h))
                => g.total = h.total /\ g.mine = h.mine]_vars

\* C13 witness: two hellos of one connection, called after a press of its
\* user was counted and with no write since, have both read total 1 and
\* mine 1.
C13_Witness ==
    \E h \in InFlight :
        /\ handlers[h] = 2
        /\ h.kind = "hello"
        /\ h.pc = "top"
        /\ h.conn = "c1"
        /\ h.total = 1
        /\ h.mine = 1
        /\ NoWriteSince(h)

\* C14: a set_name on a connection without authenticated user changes no
\* table, rate bucket or handler and sends nothing; a set_name whose UPDATE
\* and reads succeed sends one stats message to every connection, each with
\* the total, the top and a numeric mine that getTotals read: mine is a
\* committed click count of the renaming user, the stored one when nothing
\* was written since.
C14_SetNameBroadcast ==
    [][/\ \A c \in Conns :
             (authedUserId[c] = NoUser /\ SetNameUnauth(c)) =>
                 /\ emitted' = <<>>
                 /\ UNCHANGED <<users, user_stats, stats, rateBuckets,
                                handlers>>
       /\ \A h \in InFlight :
             SetNameEmit(h) =>
                 /\ Len(emitted') = Cardinality(Conns)
                 /\ {emitted'[i].to : i \in 1..Len(emitted')} = Conns
                 /\ \A i \in 1..Len(emitted') :
                       /\ emitted'[i].event = "stats"
                       /\ emitted'[i].total = h.total
                       /\ emitted'[i].mine = h.mine
                       /\ emitted'[i].mine # Undefined
                       /\ emitted'[i].top \in GetTop(users, user_stats, 10)
                 /\ \E past \in history :
                       h.mine = IF UserOf(h) \in DOMAIN past.user_stats
                                THEN past.user_stats[UserOf(h)] ELSE 0
                 /\ NoWriteSince(h) =>
                       /\ h.total = stats
                       /\ h.mine = IF UserOf(h) \in DOMAIN user_stats
                                   THEN user_stats[UserOf(h)] ELSE 0]_vars

\* C14 witness: after u1 and u2 have pressed once each, the set_name of u1
\* has been answered: the three connections get total 2, mine 1 (the clicks
\* of u1) and a top that leads with the new name.
C14_Witness ==
    /\ Len(emitted) = 3
    /\ {emitted[i].to : i \in 1..3} = Conns
    /\ \A i \in 1..3 :
          /\ emitted[i].event = "stats"
          /\ emitted[i].total = 2
          /\ emitted[i].mine = 1
          /\ Len(emitted[i].top) = 2
          /\ emitted[i].top[1].name = <<"B">>
    /\ users["u1"].display_name = <<"B">>

\* C15: you messages that two successive steps send to one connection carry
\* strictly increasing mine values.
C15_YouMineIncreasing ==
    [][\A i \in 1..Len(emitted), j \in 1..Len(emitted') :
          (/\ emitted[i].event = "you"
           /\ emitted'[j].event = "you"
           /\ emitted'[j].to = emitted[i].to)
          => emitted'[j].mine > emitted[i].mine]_vars

\* the stored clicks of user u in the table ust, 0 without a row
ClicksOf(ust, u) == IF u \in DOMAIN ust THEN ust[u] ELSE 0

\* C16: no step lowers the stored total or the clicks of a user; a step that
\* changes either is the COMMIT of a press: it raises the total by exactly 1
\* and the clicks of the pressing user by exactly 1 and leaves the clicks of
\* every other user as they were.
C16_CountsOnlyGrowByCommit ==
    [][/\ stats' >= stats
       /\ \A u \in UserIds : ClicksOf(user_stats', u) >= ClicksOf(user_stats, u)
       /\ DOMAIN user_stats \subseteq DOMAIN user_stats'
       /\ (stats' # stats \/ user_stats' # user_stats) =>
             \E h \in InFlight :
                 /\ h.kind = "press"
                 /\ h.pc = "commit"
                 /\ stats' = stats + 1
                 /\ \A u \in UserIds :
                       ClicksOf(user_stats', u)
                          = ClicksOf(user_stats, u)
                               + (IF u = UserOf(h) THEN 1 ELSE 0)
                 /\ DOMAIN user_stats' = DOMAIN user_stats \cup {UserOf(h)}]_vars

\* C16 witness: the press of u2 has just committed after one of u1: the
\* total went from 1 to 2 and the clicks of u2 from none to 1.
C16_Witness ==
    /\ stats = 2
    /\ user_stats = [u \in {"u1", "u2"} |-> 1]
    /\ \E h \in InFlight :
          /\ h.conn = "c2"
          /\ h.committed
          /\ h.before = [total |-> 1, user_stats |-> [u \in {"u1"} |-> 1]]
    /\ emitted = <<>>

(***************************************************************************)
(* SpecAuth: the accounts are created by /api/signup and /api/oauth/google *)
(* and logged in by /api/login; the browsers that hold the cookie of a     *)
(* user send hello and press.                                              *)
(***************************************************************************)
\* ensureUserStats left out of the signup, login and OAuth handlers
EnsureRow_Skipped(ust, u) == ust

\* INSERT INTO user_stats(user_id, clicks) VALUES ($1, 0) ON CONFLICT DO
\* NOTHING
EnsureRow(ust, u) == IF u \in DOMAIN ust THEN ust ELSE PutClicks(ust, u, 0)

\* the browsers of SpecAuth
AuthConns == {"c1", "c2"}

\* the account that each browser of SpecAuth signs up and logs in with
AccountOf(c) == IF c = "c1" THEN "u1" ELSE "u2"

InitAuth ==
    /\ users = [u \in {} |-> 0]
    /\ user_stats = EmptyStats
    /\ stats = 0
    /\ authedUserId = [c \in Conns |-> NoUser]
    /\ connected = Conns
    /\ rateBuckets = [c \in {} |-> 0]
    /\ now = 0
    /\ sub = 0
    /\ handlers = EmptyBag
    /\ emitted = <<>>
    /\ commits = [u \in UserIds |-> 0]
    /\ history = {[total |-> 0, user_stats |-> EmptyStats]}
    /\ topOut = <<>>
    /\ calls = [c \in Conns |-> <<>>]

\* /api/signup, and /api/oauth/google for an email without account, up to
\* the await of ensureUserStats: the INSERT INTO users succeeds when no row
\* has the email (users_email_unique)
Signup(c, u) ==
    /\ RoomForHandler
    /\ u \notin DOMAIN users
    /\ users' = [v \in DOMAIN users \cup {u} |->
                    IF v = u
                    THEN [display_name |-> SqlNull,
                          created_at |-> Cardinality(DOMAIN users) + 1]
                    ELSE users[v]]
    /\ handlers' = Start([NewHandler("signup", c, "ensure") EXCEPT
                             !.arg = <<u>>])
    /\ emitted' = <<>>
    /\ UNCHANGED <<user_stats, stats, commits, history, authedUserId, connected,
                   rateBuckets, clock, topOut, calls>>

\* /api/login, and /api/oauth/google for an email with account, up to the
\* await of ensureUserStats
Login(c, u) ==
    /\ RoomForHandler
    /\ u \in DOMAIN users
    /\ handlers' = Start([NewHandler("login", c, "ensure") EXCEPT
                             !.arg = <<u>>])
    /\ emitted' = <<>>
    /\ UNCHANGED <<store, authedUserId, connected, rateBuckets, clock, topOut,
                   calls>>

\* await ensureUserStats(user.id); res.cookie("token", signToken(...)): the
\* browser holds the cookie of the user, and its next socket, opened once
\* the handlers of its last one have ended, is authenticated by it
EnsureUserStats(h) ==
    LET u == h.arg[1] IN
    /\ h.kind \in {"signup", "login"}
    /\ h.pc = "ensure"
    /\ \A g \in InFlight : g.conn = h.conn => g = h
    /\ user_stats' = EnsureRow(user_stats, u)
    /\ history' = history \cup {[total |-> stats, user_stats |-> user_stats']}
    /\ authedUserId' = [authedUserId EXCEPT ![h.conn] = u]
    /\ handlers' = Finish(h)
    /\ emitted' = <<>>
    /\ UNCHANGED <<users, stats, commits, connected, rateBuckets, clock, topOut,
                   calls>>

\* ensureUserStats fails: the catch block answers 500 and sets no cookie
EnsureFault(h) ==
    /\ h.kind \in {"signup", "login"}
    /\ h.pc = "ensure"
    /\ handlers' = Finish(h)
    /\ emitted' = <<>>
    /\ UNCHANGED <<store, authedUserId, connected, rateBuckets, clock, topOut,
                   calls>>

NextAuth ==
    \/ \E c \in AuthConns : Signup(c, AccountOf(c))
    \/ \E c \in AuthConns : Login(c, AccountOf(c))
    \/ \E h \in InFlight : EnsureUserStats(h)
    \/ \E h \in InFlight : EnsureFault(h)
    \/ \E c \in AuthConns : Press(c)
    \/ \E h \in InFlight : TxUpdate(h)
    \/ \E h \in InFlight : TxUpsert(h)
    \/ \E h \in InFlight : TxFault(h)
    \/ \E h \in InFlight : TxCommit(h)
    \/ \E h \in InFlight : TxRollback(h)
    \/ \E h \in InFlight : PressEmit(h)
    \/ \E c \in AuthConns : HelloStart(c)
    \/ \E h \in InFlight : ReadTotal(h)
    \/ \E h \in InFlight : ReadMine(h)
    \/ \E h \in InFlight : ReadFault(h)
    \/ \E h \in InFlight : HelloEmit(h)

SpecAuth == InitAuth /\ [][NextAuth]_vars

\* C17: no user_stats row exists for a user id without users row, and every
\* user whose cookie a browser holds, so every user that sends a hello or a
\* press, has a user_stats row: the row is there before the first hello or
\* press of the user starts.
C17_StatsRowOfEveryAccount ==
    /\ DOMAIN user_stats \subseteq DOMAIN users
    /\ \A c \in Conns :
          authedUserId[c] # NoUser => authedUserId[c] \in DOMAIN user_stats
    /\ \A h \in InFlight :
          (h.kind \in {"hello", "press"} /\ UserOf(h) # NoUser)
             => UserOf(h) \in DOMAIN user_stats

\* C17 witness: u1 has signed up and has pressed once; the signup of u2 has
\* failed at ensureUserStats, so that u2 has a users row, no user_stats row
\* and no cookie.
C17_Witness ==
    /\ DOMAIN users = {"u1", "u2"}
    /\ user_stats = [u \in {"u1"} |-> 1]
    /\ authedUserId["c1"] = "u1"
    /\ authedUserId["c2"] = NoUser
    /\ Len(emitted) = 4
    /\ emitted[4].event = "you"
    /\ emitted[4].to = "c1"

(***************************************************************************)
(* SpecHang: the presses of c1 and c2, where the store answers every       *)
(* statement of the handlers of c2 that it can execute, while a statement  *)
(* of a handler of c1 may stay without answer for ever.                    *)
(***************************************************************************)
\* the connections that press in SpecHang
HangConns == {"c1", "c2"}

\* the store answers a statement that a press handler of connection c waits
\* for
StoreAnswers(c) ==
    \E h \in InFlight :
        /\ h.conn = c
        /\ \/ TxUpdate(h)
           \/ TxUpsert(h)
           \/ TxUpsertNoUser(h)
           \/ TxCommit(h)
           \/ TxRollback(h)
           \/ PressEmit(h)

NextHang ==
    \/ \E c \in HangConns : Press(c)
    \/ \E h \in InFlight : TxUpdate(h)
    \/ \E h \in InFlight : TxUpsert(h)
    \/ \E h \in InFlight : TxUpsertNoUser(h)
    \/ \E h \in InFlight : TxFault(h)
    \/ \E h \in InFlight : TxCommit(h)
    \/ \E h \in InFlight : TxRollback(h)
    \/ \E h \in InFlight : PressEmit(h)
    \/ \E h \in InFlight : ReadFault(h)

SpecHang == Init /\ [][NextHang]_vars /\ WF_vars(StoreAnswers("c2"))

\* a press handler of connection c is in flight
PressInFlight(c) == \E h \in InFlight : h.kind = "press" /\ h.conn = c

\* C18: whatever happens to the statements of the presses of c1, every
\* press of c2 that has reached pressOnce ends.
C18_OtherPressCompletes == PressInFlight("c2") ~> ~PressInFlight("c2")

(***************************************************************************)
(* SpecGone: the presses of c1 and c2, whose sockets may close at any      *)
(* time; c3 stays connected or leaves as well.                             *)
(***************************************************************************)
\* the socket of connection c closes; the server registers no disconnect
\* handler, so the handlers that c has in flight and its rate bucket stay
Disconnect(c) ==
    /\ c \in connected
    /\ connected' = connected \ {c}
    /\ emitted' = <<>>
    /\ UNCHANGED <<store, authedUserId, rateBuckets, clock, handlers, topOut,
                   calls>>

NextGone ==
    \/ \E c \in Conns : Disconnect(c)
    \/ \E c \in HangConns : Press(c)
    \/ \E h \in InFlight : TxUpdate(h)
    \/ \E h \in InFlight : TxUpsert(h)
    \/ \E h \in InFlight : TxUpsertNoUser(h)
    \/ \E h \in InFlight : TxFault(h)
    \/ \E h \in InFlight : TxCommit(h)
    \/ \E h \in InFlight : TxRollback(h)
    \/ \E h \in InFlight : PressEmit(h)
    \/ \E h \in InFlight : ReadFault(h)

SpecGone == Init /\ [][NextGone]_vars

\* the statement that press handler h waits for can be answered as if the
\* socket of h were open
NotCancelled(h) ==
    /\ (h.pc = "update" /\ ~RowLocked) => ENABLED TxUpdate(h)
    /\ (h.pc = "upsert" /\ UserOf(h) \in DOMAIN users) => ENABLED TxUpsert(h)
    /\ h.pc = "commit" => ENABLED TxCommit(h)
    /\ h.pc = "gettop" => ENABLED PressEmit(h)

\* C19: a press whose socket has closed is not cancelled: its statements
\* are answered as before, its COMMIT raises the total and the clicks of
\* its user by 1, and its broadcast is one stats message to every
\* connection that is still connected; no step delivers a message to a
\* connection whose socket has closed.
C19_DisconnectKeepsPress ==
    [][/\ \A i \in 1..Len(emitted') : emitted'[i].to \in connected'
       /\ \A h \in InFlight :
             (h.kind = "press" /\ h.conn \notin connected) =>
                 /\ NotCancelled(h)
                 /\ TxCommit(h) =>
                       /\ stats' = stats + 1
                       /\ ClicksOf(user_stats', UserOf(h))
                             = ClicksOf(user_stats, UserOf(h)) + 1
                 /\ PressEmit(h) =>
                       /\ Len(emitted') = Cardinality(connected)
                       /\ {emitted'[i].to : i \in 1..Len(emitted')}
                             = connected
                       /\ \A i \in 1..Len(emitted') :
                             /\ emitted'[i].event = "stats"
                             /\ emitted'[i].total = h.total]_vars

\* C19 witness: c1 has pressed and disconnected before its press was
\* counted; the press has committed, and its broadcast with total 1 has
\* reached c2 and c3 and nobody else.
C19_Witness ==
    /\ connected = {"c2", "c3"}
    /\ stats = 1
    /\ user_stats = [u \in {"u1"} |-> 1]
    /\ handlers = EmptyBag
    /\ Len(emitted) = 2
    /\ {emitted[i].to : i \in 1..2} = {"c2", "c3"}
    /\ \A i \in 1..2 : emitted[i].event = "stats" /\ emitted[i].total = 1

\* the bucket a call at time t leaves, given the bucket b it finds and
\* whether the window of b is over
StepOf(b, t, over) ==
    [count |-> (IF over THEN 0 ELSE b.count) + 1,
     ts |-> IF over THEN t ELSE b.ts]

\* the step of allowPress(c) follows the fixed-window rule in which over(b)
\* tells whether the window of bucket b is over: the bucket of c is reset
\* when over, its count is incremented on every call, the result is true iff
\* the incremented count is at most 10, and no other bucket changes
FollowsWindowRule(c, over(_)) ==
    LET b == IF c \in DOMAIN rateBuckets
             THEN rateBuckets[c] ELSE [count |-> 0, ts |-> now]
        e == StepOf(b, now, over(b))
    IN  /\ DOMAIN rateBuckets' = DOMAIN rateBuckets \cup {c}
        /\ rateBuckets'[c] = e
        /\ \A d \in DOMAIN rateBuckets \ {c} : rateBuckets'[d] = rateBuckets[d]
        /\ calls'[c][Len(calls'[c])].ok = (e.count <= 10)

\* C20 as stated: allowPress resets the bucket exactly when more than
\* 1000 ms have passed since the start of its window.
C20_ResetAfterMoreThan1000 ==
    [][\A c \in Conns :
          AllowPressCall(c) =>
              LET over(b) == now - b.ts > 1000 IN FollowsWindowRule(c, over)]_vars

\* C20 as amended: allowPress resets the bucket exactly when 1000 ms or
\* more have passed since the start of its window; the count is incremented
\* on every call, rejected ones included, the result is true iff the
\* incremented count is at most 10, and no other bucket changes.
C20_ResetAtOrAfter1000 ==
    [][\A c \in Conns :
          AllowPressCall(c) =>
              LET over(b) == now - b.ts >= 1000 IN FollowsWindowRule(c, over)]_vars

\* C20 witness: a connection has made 11 calls at one time, the 11th
\* rejected, and a 12th call exactly 1000 ms later has found the window over:
\* it is accepted and the bucket starts again at count 1.
C20_Witness ==
    \E c \in Conns :
        /\ Len(calls[c]) = 12
        /\ ~calls[c][11].ok
        /\ calls[c][11].t = calls[c][1].t
        /\ calls[c][12].t = calls[c][1].t + 1000
        /\ calls[c][12].ok
        /\ rateBuckets[c] = [count |-> 1, ts |-> calls[c][12].t]

\* the accepted calls among the calls i..j of a log
AcceptedIn(log, i, j) == Cardinality({k \in i..j : log[k].ok})

\* the calls i..j of a log lie within a time interval shorter than 1000 ms
ShortInterval(log, i, j) == i <= j /\ log[j].at - log[i].at < 2 * 1000

\* C21: within any time interval shorter than 1000 ms allowPress returns
\* true for at most 20 calls of one connection.
C21_AtMostTwentyInShortInterval ==
    \A c \in BurstConns :
        \A i, j \in 1..Len(calls[c]) :
            ShortInterval(calls[c], i, j) => AcceptedIn(calls[c], i, j) <= 20

\* C21 witness: 20 calls of one connection within an interval shorter than
\* 1000 ms have been accepted, 10 before and 10 after a window boundary.
C21_Witness ==
    \E c \in BurstConns :
        \E i, j \in 1..Len(calls[c]) :
            /\ ShortInterval(calls[c], i, j)
            /\ AcceptedIn(calls[c], i, j) = 20
            /\ j = i + 19
            /\ calls[c][i + 9].t < calls[c][i + 10].t

\* the totals of the stats messages that a press sends to connection c among
\* the messages msgs of one step: the broadcast of a press carries no mine
PressTotals(msgs, c) ==
    {msgs[i].total : i \in {k \in 1..Len(msgs) :
                               /\ msgs[k].to = c
                               /\ msgs[k].event = "stats"
                               /\ msgs[k].mine = Undefined}}

\* C22: the totals of the stats messages that presses send to one connection
\* in two successive steps never go backwards, and when the last press in
\* flight has sent its stats message that total is the stored total.
C22_BroadcastTotalsNonDecreasing ==
    [][\A c \in Conns :
          \A b \in PressTotals(emitted', c) :
              /\ \A a \in PressTotals(emitted, c) : b >= a
              /\ handlers' = EmptyBag => b = stats']_vars

\* the numeric mine values that the messages msgs of one step bring to
\* connection c, in the order sent
MinesTo(msgs, c) ==
    LET mine(m) == m.to = c /\ m.event \in {"stats", "you"}
                       /\ m.mine # Undefined
    IN  SelectSeq(msgs, mine)

\* the messages msgs of one step are the answer to a hello of connection c:
\* one snapshot, sent to c alone
HelloAnswered(msgs, c) ==
    /\ Len(msgs) = 1
    /\ msgs[1].to = c
    /\ msgs[1].event = "stats"
    /\ msgs[1].mine # Undefined

\* C23: when an authenticated connection has received the answer to its
\* hello and the next step ends the last event in flight, the last numeric
\* mine that step brings to the connection is the stored clicks of the
\* connection's own user.
C23_ShownMineIsOwnClicks ==
    [][\A c \in Conns :
          (/\ authedUserId[c] # NoUser
           /\ HelloAnswered(emitted, c)
           /\ handlers' = EmptyBag
           /\ MinesTo(emitted', c) # <<>>)
          => MinesTo(emitted', c)[Len(MinesTo(emitted', c))].mine
                 = ClicksOf(user_stats', authedUserId[c])]_vars

====
